---- MODULE Spec2Model ----
(***************************************************************************)
(* Model of package delayconn: decorators of a net.Conn that fragment or   *)
(* delay its reads and writes.                                             *)
(*                                                                         *)
(* A connection handle is a record [kind, delay, conn, io]: kind names the *)
(* Go type, delay is the configured time.Duration, conn is the `conn`      *)
(* field (another handle, or NilConn when the constructor leaves the field *)
(* unset) and io is the `w` / `reader` field (the handle the one-byte      *)
(* adapter was built around).  The innermost handle is the connection      *)
(* supplied by the environment; its mutable state is the variable net.     *)
(*                                                                         *)
(* A call is evaluated by ConnCall, which returns the Go results together  *)
(* with the new state of the innermost connection and the ordered log of   *)
(* everything the call did: each call issued on a handle (tagged with the  *)
(* nesting level of the handle it was issued on, and with what the call    *)
(* returned) and each time.Sleep (tagged with the level of the wrapper     *)
(* that slept).                                                            *)
(***************************************************************************)
EXTENDS Integers, Sequences, FiniteSets, TLC

\* ------------------------------------------------------------- bounds
MaxLen == 2          \* longest buffer handed to Read or Write
MaxDepth == 1        \* wrappers around the innermost conn, all operations in use
MaxNest == 2         \* wrappers around the innermost conn, closing a chain
WCap == 2            \* bytes the innermost conn accepts before its writes fail

Bytes == {1, 2}
Delays == {0, 3}     \* time.Duration values: none, and a positive one
Times == {0, 7}      \* time.Time values: the zero time, and a deadline
Stream == <<1, 2>>   \* what the innermost conn has to deliver to Read

Nil == "nil"
EOF == "EOF"
ErrClosed == "use of closed network connection"
ErrTimeout == "i/o timeout"

ForwardOps == {"LocalAddr", "RemoteAddr",
               "SetDeadline", "SetReadDeadline", "SetWriteDeadline"}

Min(a, b) == IF a < b THEN a ELSE b

SeqsUpTo(S, n) == UNION {[1..k -> S] : k \in 0..n}
Buffers == SeqsUpTo(Bytes, MaxLen)
\* A read buffer: only its length matters, its bytes start as zero.
ReadBuffers == SeqsUpTo({0}, MaxLen)

VARIABLES conn, net, last, loop
vars == <<conn, net, last, loop>>

\* ------------------------------------------------ results and the log
\* What a call returns: n / data / addr / err are the Go results (data is
\* what a Read stored in the buffer), panic is a run-time panic raised
\* instead of returning, net the innermost connection afterwards.
Result(n, data, addr, err, c) ==
    [n |-> n, data |-> data, addr |-> addr, err |-> err, panic |-> FALSE,
     net |-> c, log |-> <<>>]

\* A method called through a nil interface value: nil pointer dereference.
NilPanic(c) ==
    [n |-> 0, data |-> <<>>, addr |-> "", err |-> Nil, panic |-> TRUE,
     net |-> c, log |-> <<>>]

CallEvent(lvl, op, arg, r) ==
    [lvl |-> lvl, op |-> op, arg |-> arg, n |-> r.n, data |-> r.data,
     addr |-> r.addr, err |-> r.err, panic |-> r.panic]

SleepEvent(lvl, d) ==
    [lvl |-> lvl, op |-> "Sleep", arg |-> <<d>>, n |-> 0, data |-> <<>>,
     addr |-> "", err |-> Nil, panic |-> FALSE]

\* if delay > 0 { time.Sleep(delay) }
Sleep(lvl, delay) == IF delay > 0 THEN <<SleepEvent(lvl, delay)>> ELSE <<>>

After(log, r) == [r EXCEPT !.log = log \o r.log]

\* The element of a one-element set (binds a result that is used repeatedly).
Only(S) == CHOOSE x \in S : TRUE

\* ---------------------------------------------- the innermost net.Conn
\* The connection under the wrappers.  Like the rwconn of the tests it
\* reads from a byte stream and appends what is written; as any net.Conn
\* it can also fail: every call on a closed connection reports ErrClosed,
\* a Read at the end of the stream reports EOF, and a Write beyond what
\* the peer accepts is cut short and reports a timeout.  It never returns
\* a short write with a nil error.
InnerRead(b, c) ==
    IF c.closed THEN Result(0, <<>>, "", ErrClosed, c)
    ELSE IF Len(b) = 0 THEN Result(0, <<>>, "", Nil, c)
    ELSE IF Len(c.rbuf) = 0 THEN Result(0, <<>>, "", EOF, c)
    ELSE LET k == Min(Len(b), Len(c.rbuf))
         IN Result(k, SubSeq(c.rbuf, 1, k), "", Nil,
                   [c EXCEPT !.rbuf = SubSeq(c.rbuf, k + 1, Len(c.rbuf))])

InnerWrite(b, c) ==
    IF c.closed THEN Result(0, <<>>, "", ErrClosed, c)
    ELSE IF Len(b) <= c.room
         THEN Result(Len(b), <<>>, "", Nil, [c EXCEPT !.room = c.room - Len(b)])
         ELSE Result(c.room, <<>>, "", ErrTimeout, [c EXCEPT !.room = 0])

InnerClose(c) ==
    IF c.closed THEN Result(0, <<>>, "", ErrClosed, c)
    ELSE Result(0, <<>>, "", Nil, [c EXCEPT !.closed = TRUE])

InnerAddr(op, c) ==
    Result(0, <<>>, IF op = "LocalAddr" THEN "local" ELSE "remote", Nil, c)

InnerSetDeadline(c) ==
    IF c.closed THEN Result(0, <<>>, "", ErrClosed, c)
    ELSE Result(0, <<>>, "", Nil, c)

rwconn(op, arg, c) ==
    CASE op = "Read" -> InnerRead(arg, c)
      [] op = "Write" -> InnerWrite(arg, c)
      [] op = "Close" -> InnerClose(c)
      [] op \in {"LocalAddr", "RemoteAddr"} -> InnerAddr(op, c)
      [] OTHER -> InnerSetDeadline(c)

\* ------------------------------------------------------- constructors
NilConn == [kind |-> "nil"]
InnerConn == [kind |-> "rwconn"]

NewOneByteWriteConn(c) ==
    [kind |-> "OneByteWriteConn", delay |-> 0, conn |-> c, io |-> c]

\* Only the reader field is set: the conn field keeps its zero value, nil.
NewOneByteReadConn(c) ==
    [kind |-> "OneByteReadConn", delay |-> 0, conn |-> NilConn, io |-> c]

NewReadDelayConn(delay, c) ==
    [kind |-> "ReadDelayConn", delay |-> delay, conn |-> c, io |-> NilConn]

NewWriteDelayConn(delay, c) ==
    [kind |-> "WriteDelayConn", delay |-> delay, conn |-> c, io |-> NilConn]

NewDelayConn(delay, c) ==
    [kind |-> "DelayConn", delay |-> delay, conn |-> c, io |-> NilConn]

NewPerWriteDelayConn(delay, c) ==
    [kind |-> "PerWriteDelayConn", delay |-> delay, conn |-> c, io |-> NilConn]

\* ------------------------------------------------------------ methods
\* ConnCall(h, lvl, op, arg, c): method op called with arg on handle h,
\* which sits lvl wrappers below the outermost one.
RECURSIVE ConnCall(_, _, _, _, _)

\* Faulty variants of oneByteWriter.Write: the whole buffer handed on; no
\* early return for an empty buffer; the last byte handed on, not the first.
oneByteWriter_Write_whole(w, lvl, p, c) ==
    IF Len(p) = 0 THEN Result(0, <<>>, "", Nil, c)
    ELSE ConnCall(w, lvl + 1, "Write", p, c)

oneByteWriter_Write_noEmptyCheck(w, lvl, p, c) ==
    ConnCall(w, lvl + 1, "Write", SubSeq(p, 1, Min(1, Len(p))), c)

oneByteWriter_Write_lastByte(w, lvl, p, c) ==
    IF Len(p) = 0 THEN Result(0, <<>>, "", Nil, c)
    ELSE ConnCall(w, lvl + 1, "Write", SubSeq(p, Len(p), Len(p)), c)

\* oneByteWriter.Write, around the handle w.
oneByteWriter_Write(w, lvl, p, c) ==
    IF Len(p) = 0 THEN Result(0, <<>>, "", Nil, c)
    ELSE ConnCall(w, lvl + 1, "Write", SubSeq(p, 1, 1), c)

\* The Read of iotest.OneByteReader(r).
oneByteReader_Read(r, lvl, p, c) ==
    IF Len(p) = 0 THEN Result(0, <<>>, "", Nil, c)
    ELSE ConnCall(r, lvl + 1, "Read", SubSeq(p, 1, 1), c)

OneByteWriteConn_Read(rc, lvl, b, c) == ConnCall(rc.conn, lvl + 1, "Read", b, c)

OneByteWriteConn_Write(rc, lvl, b, c) == oneByteWriter_Write(rc.io, lvl, b, c)

OneByteWriteConn_Close(rc, lvl, c) == ConnCall(rc.conn, lvl + 1, "Close", <<>>, c)

OneByteWriteConn_Forward(rc, lvl, op, arg, c) == ConnCall(rc.conn, lvl + 1, op, arg, c)

\* Faulty variant: reads from the connection itself, not through the reader.
OneByteReadConn_Read_direct(rc, lvl, b, c) == ConnCall(rc.io, lvl + 1, "Read", b, c)

OneByteReadConn_Read(rc, lvl, b, c) == oneByteReader_Read(rc.io, lvl, b, c)

OneByteReadConn_Write(rc, lvl, b, c) == ConnCall(rc.conn, lvl + 1, "Write", b, c)

OneByteReadConn_Close(rc, lvl, c) == ConnCall(rc.conn, lvl + 1, "Close", <<>>, c)

OneByteReadConn_Forward(rc, lvl, op, arg, c) == ConnCall(rc.conn, lvl + 1, op, arg, c)

\* Faulty variant: the sleep comes after the delegated Read.
ReadDelayConn_Read_sleepAfter(rc, lvl, b, c) ==
    Only({[r EXCEPT !.log = r.log \o Sleep(lvl, rc.delay)]
          : r \in {ConnCall(rc.conn, lvl + 1, "Read", b, c)}})

ReadDelayConn_Read(rc, lvl, b, c) ==
    After(Sleep(lvl, rc.delay), ConnCall(rc.conn, lvl + 1, "Read", b, c))

ReadDelayConn_Write(rc, lvl, b, c) == ConnCall(rc.conn, lvl + 1, "Write", b, c)

ReadDelayConn_Close(rc, lvl, c) == ConnCall(rc.conn, lvl + 1, "Close", <<>>, c)

ReadDelayConn_Forward(rc, lvl, op, arg, c) == ConnCall(rc.conn, lvl + 1, op, arg, c)

WriteDelayConn_Read(rc, lvl, b, c) == ConnCall(rc.conn, lvl + 1, "Read", b, c)

\* Faulty variants: only the first byte is handed on; an error of the
\* delegated Write is dropped.
WriteDelayConn_Write_truncating(rc, lvl, b, c) ==
    After(Sleep(lvl, rc.delay),
          ConnCall(rc.conn, lvl + 1, "Write", SubSeq(b, 1, Min(1, Len(b))), c))

WriteDelayConn_Write_dropError(rc, lvl, b, c) ==
    Only({After(Sleep(lvl, rc.delay), [r EXCEPT !.err = Nil])
          : r \in {ConnCall(rc.conn, lvl + 1, "Write", b, c)}})

WriteDelayConn_Write(rc, lvl, b, c) ==
    After(Sleep(lvl, rc.delay), ConnCall(rc.conn, lvl + 1, "Write", b, c))

WriteDelayConn_Close(rc, lvl, c) == ConnCall(rc.conn, lvl + 1, "Close", <<>>, c)

WriteDelayConn_Forward(rc, lvl, op, arg, c) == ConnCall(rc.conn, lvl + 1, op, arg, c)

DelayConn_Read(rc, lvl, b, c) ==
    After(Sleep(lvl, rc.delay), ConnCall(rc.conn, lvl + 1, "Read", b, c))

DelayConn_Write(rc, lvl, b, c) ==
    After(Sleep(lvl, rc.delay), ConnCall(rc.conn, lvl + 1, "Write", b, c))

\* Faulty variant: Close delays like Read and Write.
DelayConn_Close_sleeping(rc, lvl, c) ==
    After(Sleep(lvl, rc.delay), ConnCall(rc.conn, lvl + 1, "Close", <<>>, c))

DelayConn_Close(rc, lvl, c) == ConnCall(rc.conn, lvl + 1, "Close", <<>>, c)

DelayConn_Forward(rc, lvl, op, arg, c) == ConnCall(rc.conn, lvl + 1, op, arg, c)

\* PerWriteDelayConn.Write from byte i on, total bytes written so far:
\* sleep, write one byte, add what was written, stop at the first error.
RECURSIVE PerWriteDelayConn_WriteFrom(_, _, _, _, _, _)
PerWriteDelayConn_WriteFrom(rc, lvl, b, i, total, c) ==
    IF i > Len(b) THEN Result(total, <<>>, "", Nil, c)
    ELSE Only({
           IF r.panic \/ r.err /= Nil
           THEN After(Sleep(lvl, rc.delay), [r EXCEPT !.n = total + r.n])
           ELSE After(Sleep(lvl, rc.delay) \o r.log,
                      PerWriteDelayConn_WriteFrom(rc, lvl, b, i + 1, total + r.n, r.net))
           : r \in {ConnCall(rc.conn, lvl + 1, "Write", SubSeq(b, i, i), c)}})

\* Faulty variant: one sleep for the whole call.
PerWriteDelayConn_Write_sleepOnce(rc, lvl, b, c) ==
    After(Sleep(lvl, rc.delay),
          PerWriteDelayConn_WriteFrom([rc EXCEPT !.delay = 0], lvl, b, 1, 0, c))

PerWriteDelayConn_Write(rc, lvl, b, c) == PerWriteDelayConn_WriteFrom(rc, lvl, b, 1, 0, c)

PerWriteDelayConn_Read(rc, lvl, b, c) == ConnCall(rc.conn, lvl + 1, "Read", b, c)

PerWriteDelayConn_Close(rc, lvl, c) == ConnCall(rc.conn, lvl + 1, "Close", <<>>, c)

PerWriteDelayConn_Forward(rc, lvl, op, arg, c) == ConnCall(rc.conn, lvl + 1, op, arg, c)

\* Dynamic dispatch on the handle's type.
Method(h, lvl, op, arg, c) ==
    CASE h.kind = "rwconn" -> rwconn(op, arg, c)
      [] h.kind = "OneByteWriteConn" ->
            CASE op = "Read" -> OneByteWriteConn_Read(h, lvl, arg, c)
              [] op = "Write" -> OneByteWriteConn_Write(h, lvl, arg, c)
              [] op = "Close" -> OneByteWriteConn_Close(h, lvl, c)
              [] OTHER -> OneByteWriteConn_Forward(h, lvl, op, arg, c)
      [] h.kind = "OneByteReadConn" ->
            CASE op = "Read" -> OneByteReadConn_Read(h, lvl, arg, c)
              [] op = "Write" -> OneByteReadConn_Write(h, lvl, arg, c)
              [] op = "Close" -> OneByteReadConn_Close(h, lvl, c)
              [] OTHER -> OneByteReadConn_Forward(h, lvl, op, arg, c)
      [] h.kind = "ReadDelayConn" ->
            CASE op = "Read" -> ReadDelayConn_Read(h, lvl, arg, c)
              [] op = "Write" -> ReadDelayConn_Write(h, lvl, arg, c)
              [] op = "Close" -> ReadDelayConn_Close(h, lvl, c)
              [] OTHER -> ReadDelayConn_Forward(h, lvl, op, arg, c)
      [] h.kind = "WriteDelayConn" ->
            CASE op = "Read" -> WriteDelayConn_Read(h, lvl, arg, c)
              [] op = "Write" -> WriteDelayConn_Write(h, lvl, arg, c)
              [] op = "Close" -> WriteDelayConn_Close(h, lvl, c)
              [] OTHER -> WriteDelayConn_Forward(h, lvl, op, arg, c)
      [] h.kind = "DelayConn" ->
            CASE op = "Read" -> DelayConn_Read(h, lvl, arg, c)
              [] op = "Write" -> DelayConn_Write(h, lvl, arg, c)
              [] op = "Close" -> DelayConn_Close(h, lvl, c)
              [] OTHER -> DelayConn_Forward(h, lvl, op, arg, c)
      [] h.kind = "PerWriteDelayConn" ->
            CASE op = "Read" -> PerWriteDelayConn_Read(h, lvl, arg, c)
              [] op = "Write" -> PerWriteDelayConn_Write(h, lvl, arg, c)
              [] op = "Close" -> PerWriteDelayConn_Close(h, lvl, c)
              [] OTHER -> PerWriteDelayConn_Forward(h, lvl, op, arg, c)

\* A call through a nil interface panics at the call site: nothing is
\* called, nothing is logged.  Otherwise the call is logged when issued,
\* with what it will return, ahead of everything it does.
ConnCall(h, lvl, op, arg, c) ==
    IF h.kind = "nil" THEN NilPanic(c)
    ELSE Only({After(<<CallEvent(lvl, op, arg, r)>>, r) : r \in {Method(h, lvl, op, arg, c)}})

RECURSIVE Depth(_)
Depth(h) ==
    CASE h.kind \in {"nil", "rwconn"} -> 0
      [] h.kind \in {"OneByteWriteConn", "OneByteReadConn"} -> 1 + Depth(h.io)
      [] OTHER -> 1 + Depth(h.conn)

\* ------------------------------------------------------------- states
\* conn: the outermost handle.  net: the innermost connection (room: bytes
\* its peer still accepts, rbuf: bytes still to be read, closed).  last:
\* the last call made on conn, with its results, its log and the innermost
\* connection as it was when the call was made (pre).  loop: a
\* caller writing a whole buffer through conn, one Write after the other.
NoCall ==
    [op |-> "none", arg |-> <<>>, n |-> 0, data |-> <<>>, addr |-> "",
     err |-> Nil, panic |-> FALSE, log |-> <<>>,
     pre |-> [room |-> WCap, rbuf |-> Stream, closed |-> FALSE]]

Idle ==
    [pc |-> "idle", buf |-> <<>>, off |-> 0, calls |-> 0, sent |-> <<>>,
     err |-> Nil, panic |-> FALSE]

Init ==
    /\ conn = InnerConn
    /\ net = [room |-> WCap, rbuf |-> Stream, closed |-> FALSE]
    /\ last = NoCall
    /\ loop = Idle

\* The call that returned r, made on the outermost handle.
Returned(op, arg, r) ==
    /\ net' = r.net
    /\ last' = [op |-> op, arg |-> arg, n |-> r.n, data |-> r.data,
                addr |-> r.addr, err |-> r.err, panic |-> r.panic,
                log |-> r.log, pre |-> net]
    /\ UNCHANGED conn

\* One call on the outermost handle, from the program using the package.
Call(op, arg) ==
    \E r \in {ConnCall(conn, 0, op, arg, net)} :
       /\ Returned(op, arg, r)
       /\ UNCHANGED loop

\* A constructor wraps the current handle; last describes the last call on
\* the current outermost handle, so a new handle starts with none.
Wrap(h, depth) ==
    /\ Depth(conn) < depth
    /\ loop.pc = "idle"
    /\ conn' = h
    /\ last' = NoCall
    /\ UNCHANGED <<net, loop>>

WrapOneByteWrite == Wrap(NewOneByteWriteConn(conn), MaxDepth)
WrapOneByteRead == Wrap(NewOneByteReadConn(conn), MaxDepth)
WrapReadDelay == \E d \in Delays : Wrap(NewReadDelayConn(d, conn), MaxDepth)
WrapWriteDelay == \E d \in Delays : Wrap(NewWriteDelayConn(d, conn), MaxDepth)
WrapDelay == \E d \in Delays : Wrap(NewDelayConn(d, conn), MaxDepth)
WrapPerWriteDelay == \E d \in Delays : Wrap(NewPerWriteDelayConn(d, conn), MaxDepth)

Read == \E b \in ReadBuffers : Call("Read", b)
Write == \E b \in Buffers : Call("Write", b)
Close == Call("Close", <<>>)
LocalAddr == Call("LocalAddr", <<>>)
RemoteAddr == Call("RemoteAddr", <<>>)
SetDeadline == \E t \in Times : Call("SetDeadline", <<t>>)
SetReadDeadline == \E t \in Times : Call("SetReadDeadline", <<t>>)
SetWriteDeadline == \E t \in Times : Call("SetWriteDeadline", <<t>>)

Next ==
    \/ WrapOneByteWrite
    \/ WrapOneByteRead
    \/ WrapReadDelay
    \/ WrapWriteDelay
    \/ WrapDelay
    \/ WrapPerWriteDelay
    \/ Read
    \/ Write
    \/ Close
    \/ LocalAddr
    \/ RemoteAddr
    \/ SetDeadline
    \/ SetReadDeadline
    \/ SetWriteDeadline

Spec == Init /\ [][Next]_vars

\* ------------------------------------------------- chains of wrappers
\* Wrappers nested up to MaxNest deep, then closed (and closed again).
NestOneByteWrite == Wrap(NewOneByteWriteConn(conn), MaxNest)
NestOneByteRead == Wrap(NewOneByteReadConn(conn), MaxNest)
NestReadDelay == \E d \in Delays : Wrap(NewReadDelayConn(d, conn), MaxNest)
NestWriteDelay == \E d \in Delays : Wrap(NewWriteDelayConn(d, conn), MaxNest)
NestDelay == \E d \in Delays : Wrap(NewDelayConn(d, conn), MaxNest)
NestPerWriteDelay == \E d \in Delays : Wrap(NewPerWriteDelayConn(d, conn), MaxNest)

NextNest ==
    \/ NestOneByteWrite
    \/ NestOneByteRead
    \/ NestReadDelay
    \/ NestWriteDelay
    \/ NestDelay
    \/ NestPerWriteDelay
    \/ Close

SpecNest == Init /\ [][NextNest]_vars

\* ------------------------------------------------- a caller's write loop
\*   for len(p) > 0 { n, err := c.Write(p); p = p[n:]; if err != nil { return err } }
\* sent collects the bytes the handle directly under conn took, in order.
MaxCalls == MaxLen + 2

RECURSIVE Delivered(_)
Delivered(log) ==
    IF log = <<>> THEN <<>>
    ELSE LET e == Head(log)
         IN (IF e.lvl = 1 /\ e.op = "Write" /\ ~e.panic
             THEN SubSeq(e.arg, 1, e.n) ELSE <<>>) \o Delivered(Tail(log))

WriteAllStart ==
    \E b \in Buffers :
       /\ loop.pc = "idle"
       /\ loop' = [Idle EXCEPT !.pc = "run", !.buf = b]
       /\ UNCHANGED <<conn, net, last>>

WriteAllStep ==
    /\ loop.pc = "run"
    /\ loop.off < Len(loop.buf)
    /\ loop.calls < MaxCalls
    /\ LET p == SubSeq(loop.buf, loop.off + 1, Len(loop.buf))
       IN \E r \in {ConnCall(conn, 0, "Write", p, net)} :
             /\ Returned("Write", p, r)
             /\ loop' = [loop EXCEPT
                           !.pc = IF r.panic \/ r.err /= Nil THEN "done" ELSE "run",
                           !.off = loop.off + r.n,
                           !.calls = loop.calls + 1,
                           !.sent = loop.sent \o Delivered(r.log),
                           !.err = r.err,
                           !.panic = r.panic]

WriteAllReturn ==
    /\ loop.pc = "run"
    /\ loop.off >= Len(loop.buf)
    /\ loop' = [loop EXCEPT !.pc = "done"]
    /\ UNCHANGED <<conn, net, last>>

NextLoop ==
    \/ WrapOneByteWrite
    \/ WrapOneByteRead
    \/ WrapReadDelay
    \/ WrapWriteDelay
    \/ WrapDelay
    \/ WrapPerWriteDelay
    \/ WriteAllStart
    \/ WriteAllStep
    \/ WriteAllReturn

\* The caller's thread keeps running: a step of its loop that can be taken is taken.
SpecLoop == Init /\ [][NextLoop]_vars /\ WF_vars(WriteAllStep) /\ WF_vars(WriteAllReturn)

\* ------------------------------------------------ reading the call log
\* Calls the outermost wrapper issued on the handle it wraps.
IsDelegated(e) == e.lvl = 1 /\ e.op /= "Sleep"
\* Sleeps of the outermost wrapper itself.
IsOwnSleep(e) == e.lvl = 0 /\ e.op = "Sleep"
IsOuter(e) == IsDelegated(e) \/ IsOwnSleep(e)
IsSleep(e) == e.op = "Sleep"

Delegated == SelectSeq(last.log, IsDelegated)
OwnSleeps == SelectSeq(last.log, IsOwnSleep)
Outer == SelectSeq(last.log, IsOuter)

\* The delegated call e is the caller's call, and the caller got its results.
SameCall(e) == e.op = last.op /\ e.arg = last.arg
SameResult(e) ==
    /\ last.n = e.n
    /\ last.data = e.data
    /\ last.addr = e.addr
    /\ last.err = e.err
    /\ last.panic = e.panic

Succeeded(e) == ~e.panic /\ e.err = Nil /\ e.n = Len(e.arg)

DelayKinds == {"ReadDelayConn", "WriteDelayConn", "DelayConn"}

\* ------------------------------------------------------------- claims

\* C1: OneByteWriteConn.Write of a buffer of length L > 0 issues exactly one
\* Write on the wrapped connection, carrying only the first byte of the
\* buffer, never reports more than 1 byte, and returns (1, nil) when that
\* Write succeeds.
C1_OneByteWrite ==
    (conn.kind = "OneByteWriteConn" /\ last.op = "Write" /\ Len(last.arg) > 0)
    => /\ Len(Delegated) = 1
       /\ Delegated[1].op = "Write"
       /\ Delegated[1].arg = <<last.arg[1]>>
       /\ last.n <= 1
       /\ Succeeded(Delegated[1])
             => (last.n = 1 /\ last.err = Nil /\ ~last.panic)

C1_Witness ==
    /\ conn.kind = "OneByteWriteConn"
    /\ last.op = "Write"
    /\ Len(last.arg) = MaxLen
    /\ last.arg[1] /= last.arg[MaxLen]
    /\ last.n = 1
    /\ last.err = Nil

\* C2 as stated: with at least one byte available on the wrapped connection,
\* OneByteReadConn.Read returns (1, nil) whatever the length of the buffer.
C2_AnyBuffer ==
    (/\ conn.kind = "OneByteReadConn"
     /\ last.op = "Read"
     /\ ~last.pre.closed
     /\ Len(last.pre.rbuf) >= 1)
    => (last.n = 1 /\ last.err = Nil)

\* C2 amended: with at least one byte available on the wrapped connection,
\* OneByteReadConn.Read into a buffer of length >= 1 returns (1, nil), the
\* byte being the next byte of the stream, which moves on by that one byte;
\* Read into an empty buffer returns (0, nil) without reading; Read never
\* returns more than 1 byte.
C2_OneByteRead ==
    (conn.kind = "OneByteReadConn" /\ last.op = "Read")
    => /\ last.n <= 1
       /\ (~last.pre.closed /\ Len(last.pre.rbuf) >= 1 /\ Len(last.arg) >= 1)
             => /\ last.n = 1 /\ last.err = Nil /\ ~last.panic
                /\ last.data = <<last.pre.rbuf[1]>>
                /\ net.rbuf = Tail(last.pre.rbuf)
       /\ Len(last.arg) = 0
             => /\ last.n = 0 /\ last.err = Nil /\ ~last.panic
                /\ Delegated = <<>>
                /\ net = last.pre

C2_Witness ==
    /\ conn.kind = "OneByteReadConn"
    /\ last.op = "Read"
    /\ Len(last.arg) = MaxLen
    /\ Len(last.pre.rbuf) >= 2
    /\ last.n = 1
    /\ last.data = <<Stream[1]>>

\* C3: on a OneByteReadConn every operation other than Read results in
\* exactly one call of the same operation, with the same argument, on the
\* wrapped connection and returns its result, without failing in the wrapper.
C3_ForwardsOthers ==
    (conn.kind = "OneByteReadConn" /\ last.op \in (ForwardOps \cup {"Write", "Close"}))
    => /\ ~last.panic
       /\ Len(Delegated) = 1
       /\ SameCall(Delegated[1])
       /\ SameResult(Delegated[1])

\* The wrapped connection returned no short write with a nil error.
WrappedNoShort ==
    \A i \in 1..Len(Delegated) :
       (Delegated[i].op = "Write" /\ ~Delegated[i].panic /\ Delegated[i].err = Nil)
       => Delegated[i].n >= Len(Delegated[i].arg)

ReturnedNilError == last.op = "Write" /\ ~last.panic /\ last.err = Nil

\* C4 as stated: no wrapper's Write returns fewer bytes than len(buffer)
\* together with a nil error.
C4_NoShortWrite ==
    (/\ conn.kind \in DelayKinds \cup {"OneByteWriteConn", "OneByteReadConn"}
     /\ ReturnedNilError
     /\ WrappedNoShort)
    => last.n >= Len(last.arg)

\* C4 amended: the Write of ReadDelayConn, WriteDelayConn and DelayConn (and
\* of OneByteReadConn, whenever it returns) never returns fewer bytes than
\* len(buffer) with a nil error, nor does OneByteWriteConn.Write for a buffer
\* of at most 1 byte; OneByteWriteConn.Write of a longer buffer returns the
\* short write (1, nil) when the wrapped Write succeeds.
C4_ShortWriteOnlyOneByte ==
    (ReturnedNilError /\ WrappedNoShort)
    => /\ (conn.kind \in DelayKinds \cup {"OneByteReadConn"})
             => last.n = Len(last.arg)
       /\ (conn.kind = "OneByteWriteConn" /\ Len(last.arg) <= 1)
             => last.n = Len(last.arg)
       /\ (conn.kind = "OneByteWriteConn" /\ Len(last.arg) > 1)
             => last.n = 1

C4_Witness ==
    /\ conn.kind = "WriteDelayConn"
    /\ ReturnedNilError
    /\ Len(last.arg) = MaxLen
    /\ last.n = MaxLen

\* What PerWriteDelayConn.Write(b) does when nothing fails: for each byte of
\* b in turn its own sleep (when delay > 0), then the Write of that byte.
RECURSIVE PerChunk(_, _, _)
PerChunk(b, i, delay) ==
    IF i > Len(b) THEN <<>>
    ELSE (IF delay > 0 THEN <<[op |-> "Sleep", arg |-> <<delay>>]>> ELSE <<>>)
         \o <<[op |-> "Write", arg |-> <<b[i]>>]>>
         \o PerChunk(b, i + 1, delay)

OpsAndArgs(log) == [i \in 1..Len(log) |-> [op |-> log[i].op, arg |-> log[i].arg]]

AllSucceeded(log) == \A i \in 1..Len(log) : Succeeded(log[i])

\* C5: when every underlying write succeeds, PerWriteDelayConn.Write of a
\* buffer of length L performs L one-byte writes on the wrapped connection,
\* byte i in the i-th, each preceded by its own sleep of D when D > 0, and
\* returns (L, nil).
C5_PerChunk ==
    (conn.kind = "PerWriteDelayConn" /\ last.op = "Write" /\ AllSucceeded(Delegated))
    => /\ OpsAndArgs(Outer) = PerChunk(last.arg, 1, conn.delay)
       /\ last.n = Len(last.arg)
       /\ last.err = Nil
       /\ ~last.panic

C5_Witness ==
    /\ conn.kind = "PerWriteDelayConn"
    /\ conn.delay > 0
    /\ last.op = "Write"
    /\ Len(last.arg) = MaxLen
    /\ last.arg[1] /= last.arg[MaxLen]
    /\ Len(OwnSleeps) = MaxLen
    /\ last.n = MaxLen
    /\ last.err = Nil

\* C6: the one-byte writer called with an empty buffer returns (0, nil)
\* and makes no call on the writer it wraps, also when that writer fails
\* on every call.
C6_EmptyWrite ==
    (conn.kind = "OneByteWriteConn" /\ last.op = "Write" /\ Len(last.arg) = 0)
    => /\ last.n = 0
       /\ last.err = Nil
       /\ ~last.panic
       /\ Delegated = <<>>
       /\ Len(last.log) = 1
       /\ net = last.pre

C6_Witness ==
    /\ conn.kind = "OneByteWriteConn"
    /\ last.op = "Write"
    /\ Len(last.arg) = 0
    /\ last.pre.closed
    /\ last.err = Nil

Delaying ==
    \/ conn.kind = "ReadDelayConn" /\ last.op = "Read"
    \/ conn.kind = "WriteDelayConn" /\ last.op = "Write"
    \/ conn.kind = "DelayConn" /\ last.op \in {"Read", "Write"}

NotDelaying ==
    \/ conn.kind = "ReadDelayConn" /\ last.op = "Write"
    \/ conn.kind = "WriteDelayConn" /\ last.op = "Read"

\* C7: a delaying call (ReadDelayConn.Read, WriteDelayConn.Write,
\* DelayConn.Read, DelayConn.Write) sleeps exactly once, for D, when D > 0
\* and not at all when D = 0, and issues its single delegated call after the
\* sleep; ReadDelayConn.Write and WriteDelayConn.Read do not sleep.
C7_SleepThenDelegate ==
    /\ Delaying
          => /\ conn.delay > 0 => (Len(OwnSleeps) = 1 /\ OwnSleeps[1].arg = <<conn.delay>>)
             /\ conn.delay = 0 => OwnSleeps = <<>>
             /\ Len(Delegated) = 1
             /\ SameCall(Delegated[1])
             /\ Outer = OwnSleeps \o Delegated
    /\ NotDelaying
          => /\ OwnSleeps = <<>>
             /\ Len(Delegated) = 1
             /\ SameCall(Delegated[1])

C7_Witness ==
    /\ conn.kind = "ReadDelayConn"
    /\ conn.delay > 0
    /\ last.op = "Read"
    /\ last.n = MaxLen
    /\ Len(Outer) = 2
    /\ Outer[1].op = "Sleep"
    /\ Outer[2].op = "Read"

\* A chain of the wrappers that forward Close to their conn field.
RECURSIVE ForwardingChain(_)
ForwardingChain(h) ==
    \/ h.kind = "rwconn"
    \/ /\ h.kind \in DelayKinds \cup {"OneByteWriteConn"}
       /\ ForwardingChain(h.conn)

IsInnermostClose(e) == e.lvl = Depth(conn) /\ e.op = "Close"

\* C8: one Close on the outermost wrapper of a chain of OneByteWriteConn,
\* ReadDelayConn, WriteDelayConn and DelayConn results in exactly one Close
\* on the innermost connection, sleeps nowhere, and returns the innermost
\* connection's error.
C8_CloseOnce ==
    (ForwardingChain(conn) /\ Depth(conn) >= 1 /\ last.op = "Close")
    => /\ Len(SelectSeq(last.log, IsInnermostClose)) = 1
       /\ Len(last.log) = Depth(conn) + 1
       /\ SelectSeq(last.log, IsSleep) = <<>>
       /\ ~last.panic
       /\ last.err = last.log[Len(last.log)].err
       /\ last.err = (IF last.pre.closed THEN ErrClosed ELSE Nil)
       /\ net.closed

C8_Witness ==
    /\ ForwardingChain(conn)
    /\ Depth(conn) = MaxNest
    /\ conn.kind = "DelayConn"
    /\ conn.delay > 0
    /\ conn.conn.kind = "OneByteWriteConn"
    /\ last.op = "Close"
    /\ last.err = ErrClosed

\* C9: when the delegated call of a Read or Write on OneByteWriteConn,
\* ReadDelayConn, WriteDelayConn or DelayConn returns (n, err) with err
\* non-nil, the wrapper returns exactly that and calls the wrapped
\* connection no more.
C9_ErrorUnchanged ==
    (/\ conn.kind \in DelayKinds \cup {"OneByteWriteConn"}
     /\ last.op \in {"Read", "Write"}
     /\ \E i \in 1..Len(Delegated) : Delegated[i].err /= Nil)
    => /\ Len(Delegated) = 1
       /\ SameResult(Delegated[1])

C9_Witness ==
    /\ conn.kind = "WriteDelayConn"
    /\ last.op = "Write"
    /\ Len(Delegated) = 1
    /\ Delegated[1].err = ErrTimeout
    /\ last.err = ErrTimeout
    /\ last.n = 1
    /\ Len(last.arg) = MaxLen

LoopSucceeds == conn.kind = "OneByteWriteConn" /\ loop.err = Nil /\ ~loop.panic

LoopProgress ==
    (LoopSucceeds /\ loop.pc /= "idle")
    => /\ loop.calls = loop.off
       /\ loop.off <= Len(loop.buf)
       /\ loop.sent = SubSeq(loop.buf, 1, loop.off)
       /\ loop.pc = "done"
             => (loop.calls = Len(loop.buf) /\ loop.sent = loop.buf)

\* C10: a caller writing a buffer of length L through OneByteWriteConn in a
\* loop, over writes that all succeed, terminates after exactly L Write
\* calls, the wrapped connection having received exactly the buffer's bytes
\* in their order.
C10_WriteAll ==
    /\ [] LoopProgress
    /\ (conn.kind = "OneByteWriteConn" /\ loop.pc = "run") ~> (loop.pc = "done")

C10_Witness ==
    /\ LoopSucceeds
    /\ loop.pc = "done"
    /\ Len(loop.buf) = MaxLen
    /\ loop.buf[1] /= loop.buf[MaxLen]
    /\ loop.calls = MaxLen
    /\ loop.sent = loop.buf

====
